---------------------------- MODULE Spec2Model ----------------------------
(***************************************************************************)
(* Quiz backend: the student routes (detail view, start, submit) over the  *)
(* quiz_attempts table and the grading loop of submit; the teacher's       *)
(* question analysis and quiz creation; the authentication and role check  *)
(* in front of the student router.                                         *)
(*                                                                         *)
(* Every `await db.pool.query(...)` of a handler is one atomic step; the   *)
(* synchronous code between two awaits belongs to the step of the query    *)
(* that precedes it.  Requests of different clients interleave at the      *)
(* awaits.  Text is a sequence of one-character strings, so that trim,     *)
(* toLowerCase, toString and parseInt are computed and not assumed.        *)
(***************************************************************************)
EXTENDS Integers, Sequences, FiniteSets, TLC

(***************************************************************************)
(* Bounds of the model.                                                    *)
(***************************************************************************)
\* number of student requests issued in one behaviour
MaxReqs == 2
\* number of events around the student routes in one behaviour: clock ticks,
\* teacher and admin operations
MaxEnvOps == 1
\* longest enumerated answer text of the grading specification
MaxLen == 2
\* longest question list of the scoring specification
MaxQuestions == 2

\* SQL NULL in a DATETIME / TIMESTAMP column
NullTime == -1

(***************************************************************************)
(* JavaScript values and text.                                             *)
(***************************************************************************)
JsUndef == [t |-> "undefined", s |-> <<>>, n |-> 0]
JsNull == [t |-> "null", s |-> <<>>, n |-> 0]
JsStr(s) == [t |-> "string", s |-> s, n |-> 0]
JsNum(n) == [t |-> "number", s |-> <<>>, n |-> n]

\* ToBoolean: undefined, null, "" and 0 are falsy
Truthy(v) ==
    CASE v.t = "string" -> v.s # <<>>
      [] v.t = "number" -> v.n # 0
      [] OTHER -> FALSE

\* a || b
Or(a, b) == IF Truthy(a) THEN a ELSE b

Digits == <<"0", "1", "2", "3", "4", "5", "6", "7", "8", "9">>
IsDigit(c) == \E i \in 1..10 : Digits[i] = c
DigitVal(c) == (CHOOSE i \in 1..10 : Digits[i] = c) - 1

\* Number.prototype.toString for the integers
RECURSIVE NatStr(_)
NatStr(n) == IF n < 10 THEN <<Digits[n + 1]>>
             ELSE NatStr(n \div 10) \o <<Digits[(n % 10) + 1]>>
NumStr(n) == IF n < 0 THEN <<"-">> \o NatStr(-n) ELSE NatStr(n)

\* v.toString() of a string or a number
toString(v) == IF v.t = "number" THEN NumStr(v.n) ELSE v.s

UpperCase == <<"A", "B", "L", "P">>
LowerCase == <<"a", "b", "l", "p">>
LowerChar(c) == IF \E k \in 1..Len(UpperCase) : UpperCase[k] = c
                THEN LowerCase[CHOOSE k \in 1..Len(UpperCase) : UpperCase[k] = c]
                ELSE c
toLowerCase(s) == [i \in 1..Len(s) |-> LowerChar(s[i])]

IsSpace(c) == c = " "
RECURSIVE TrimStart(_)
TrimStart(s) == IF s # <<>> /\ IsSpace(Head(s)) THEN TrimStart(Tail(s)) ELSE s
RECURSIVE TrimEnd(_)
TrimEnd(s) == IF s # <<>> /\ IsSpace(s[Len(s)])
              THEN TrimEnd(SubSeq(s, 1, Len(s) - 1)) ELSE s
trim(s) == TrimEnd(TrimStart(s))

\* x.toString().trim().toLowerCase()
Normalize(v) == toLowerCase(trim(toString(v)))

RECURSIVE DigitsPrefix(_)
DigitsPrefix(s) == IF s = <<>> \/ ~IsDigit(Head(s)) THEN <<>>
                   ELSE <<Head(s)>> \o DigitsPrefix(Tail(s))
RECURSIVE DecValue(_)
DecValue(d) == IF d = <<>> THEN 0
               ELSE DecValue(SubSeq(d, 1, Len(d) - 1)) * 10 + DigitVal(d[Len(d)])

\* parseInt(s): leading white space, an optional sign, then the longest run of
\* decimal digits; NaN when there is no digit.  (No text of the model holds
\* an "x", so the 0x prefix of parseInt never applies.)
parseInt(s) ==
    LET t == TrimStart(s)
        signed == t # <<>> /\ Head(t) \in {"-", "+"}
        d == DigitsPrefix(IF signed THEN Tail(t) ELSE t)
    IN  IF d = <<>> THEN [nan |-> TRUE, val |-> 0]
        ELSE [nan |-> FALSE,
              val |-> IF signed /\ Head(t) = "-" THEN 0 - DecValue(d) ELSE DecValue(d)]

\* obj[key]: every property key is a string, a number key is its decimal text
GetProp(obj, key) == IF key \in DOMAIN obj THEN obj[key] ELSE JsUndef
TemplateKey(index) == <<"q", "u", "e", "s", "t", "i", "o", "n", "-">> \o NumStr(index)

(***************************************************************************)
(* The value of the questions.options column as the handler receives it.   *)
(*   null    : SQL NULL                                                    *)
(*   array   : an array of option values                                   *)
(*   string  : a non-empty string; JSON.parse of it throws, gives an       *)
(*             array, or gives a non-array object                          *)
(*   object  : a non-array object; items are its properties "0", "1", ...  *)
(***************************************************************************)
OptNull == [t |-> "null", items |-> <<>>, parse |-> "none"]
OptArray(items) == [t |-> "array", items |-> items, parse |-> "none"]
OptObject == [t |-> "object", items |-> <<>>, parse |-> "none"]
OptString(parse, items) == [t |-> "string", items |-> items, parse |-> parse]

\* a non-array object whose properties "0", "1", ... hold the items
OptObjectOf(items) == [t |-> "object", items |-> items, parse |-> "none"]

OptionsTruthy(o) == o.t # "null"
ParseThrows(o) == o.t = "string" /\ o.parse = "throw"
\* Array.isArray(options) after the optional JSON.parse
IsArray(o) == o.t = "array" \/ (o.t = "string" /\ o.parse = "array")
\* options[i] after the optional JSON.parse
OptionAt(o, i) ==
    IF i >= 0 /\ i < Len(o.items) THEN o.items[i + 1] ELSE JsUndef

(***************************************************************************)
(* Grading loop of POST /quizzes/:id/submit.                               *)
(***************************************************************************)
\* answers[index] || answers[index.toString()] || answers[`question-${index}`] || ''
StudentAnswer(answers, index) ==
    Or(Or(Or(GetProp(answers, NumStr(index)),
             GetProp(answers, toString(JsNum(index)))),
          GetProp(answers, TemplateKey(index))),
       JsStr(<<>>))

\* the option the correct answer points at is accepted only when the literal
\* comparison has failed and the whole parse raised nothing
McqIndexMatch(question, nsa, nca) ==
    LET idx == parseInt(nca)
        opt == OptionAt(question.options, idx.val)
    IN  /\ ~idx.nan
        /\ Truthy(opt)
        /\ nsa = Normalize(opt)

\* the two comparisons as independent statements, each adding the marks
McqCreditTwice(question, nsa, nca) ==
    IF ParseThrows(question.options) THEN 0
    ELSE (IF nsa = nca THEN question.marks ELSE 0)
         + (IF McqIndexMatch(question, nsa, nca) THEN question.marks ELSE 0)

McqCredit(question, nsa, nca) ==
    IF ParseThrows(question.options) THEN 0
    ELSE IF nsa = nca THEN question.marks
    ELSE IF McqIndexMatch(question, nsa, nca) THEN question.marks
    ELSE 0

\* what one pass of the forEach body adds to totalScore
QuestionCredit(question, studentAnswer) ==
    IF ~(Truthy(studentAnswer) /\ trim(toString(studentAnswer)) # <<>>) THEN 0
    ELSE LET nsa == Normalize(studentAnswer)
             nca == IF Truthy(question.correct_answer)
                    THEN Normalize(question.correct_answer) ELSE <<>>
         IN  IF nca = <<>> THEN 0
             ELSE IF question.question_type = "mcq" /\ OptionsTruthy(question.options)
                  THEN McqCredit(question, nsa, nca)
             ELSE IF nsa = nca THEN question.marks
             ELSE 0

\* the pass gets as far as JSON.parse(question.options)
QuestionReachesParse(question, studentAnswer) ==
    /\ Truthy(studentAnswer) /\ trim(toString(studentAnswer)) # <<>>
    /\ Truthy(question.correct_answer) /\ Normalize(question.correct_answer) # <<>>
    /\ question.question_type = "mcq" /\ question.options.t = "string"

RECURSIVE TotalScore(_, _, _)
TotalScore(qs, answers, k) ==
    IF k = 0 THEN 0
    ELSE TotalScore(qs, answers, k - 1)
         + QuestionCredit(qs[k], StudentAnswer(answers, k - 1))

Grade(qs, answers) == TotalScore(qs, answers, Len(qs))

\* x.toFixed(2) of x = n / d with d > 0, in hundredths: to the nearest, a tie
\* away from zero
ToFixed2(n, d) ==
    IF n >= 0 THEN (2 * n * 100 + d) \div (2 * d)
    ELSE 0 - ((2 * (0 - n) * 100 + d) \div (2 * d))

\* the division without the total_marks > 0 test: Infinity, clamped to 100
PercentageUnguarded(score, total_marks) ==
    IF total_marks # 0 /\ score < total_marks THEN ToFixed2(score * 100, total_marks)
    ELSE 10000
\* Math.min(100, score / total_marks * 100).toFixed(2), in hundredths
Percentage(score, total_marks) ==
    IF total_marks > 0
    THEN IF score >= total_marks THEN 10000
         ELSE ToFixed2(score * 100, total_marks)
    ELSE 0

(***************************************************************************)
(* Per-question tally of GET /analysis/quiz/:quiz_id/questions: whether    *)
(* one attempt's answers count as correct for the question at index.       *)
(***************************************************************************)
AnMcqIndexMatch(question, nsa, nca) ==
    LET idx == parseInt(nca)
        opt == OptionAt(question.options, idx.val)
    IN  /\ IsArray(question.options)
        /\ ~idx.nan
        /\ Truthy(opt)
        /\ nsa = Normalize(opt)

\* catch (optionError): the direct comparison
AnMcqCorrect(question, nsa, nca) ==
    IF ParseThrows(question.options) THEN nsa = nca
    ELSE nsa = nca \/ AnMcqIndexMatch(question, nsa, nca)

\* one pass of attempts.forEach for the question: correctCount++ or not
AnalysisCorrect(question, answers, index) ==
    LET studentAnswer == StudentAnswer(answers, index)
    IN  IF ~Truthy(studentAnswer) THEN FALSE
        ELSE LET nsa == Normalize(studentAnswer)
                 nca == IF Truthy(question.correct_answer)
                        THEN Normalize(question.correct_answer) ELSE <<>>
             IN  IF question.question_type = "mcq" /\ OptionsTruthy(question.options)
                 THEN AnMcqCorrect(question, nsa, nca)
                 ELSE nsa = nca

(***************************************************************************)
(* The database and the requests in flight.                                *)
(***************************************************************************)
VARIABLES
    quizzes,    \* quizzes table: id -> row
    questions,  \* questions table: quiz id -> its rows, ORDER BY id
    enrolled,   \* student_subjects table: set of <<student_id, subject_id>>
    attempts,   \* quiz_attempts table: set of rows
    nextId,     \* AUTO_INCREMENT of quiz_attempts
    now,        \* the clock read by new Date() and NOW()
    req,        \* connection -> the handler's position, locals and response
    started,    \* number of requests issued
    grade,      \* one run of the grading loop on its own: input and result
    envOps      \* number of teacher / admin operations done

vars == <<quizzes, questions, enrolled, attempts, nextId, now, req, started, envOps, grade>>

\* two client connections: at most two handlers run at the same time
Slots == {1, 2}
Students == {1, 2}
Subjects == {1}
QuizIds == {1, 2}
\* req.params.id: quiz 3 does not exist
ParamQuizIds == {1, 2, 3}
Kinds == {"details", "start", "submit"}

Paris == <<"P", "a", "r", "i", "s">>
London == <<"L", "o", "n", "d", "o", "n">>
Berlin == <<"B", "e", "r", "l", "i", "n">>

\* quiz 1: two well-formed questions and two malformed ones; quiz 2: authored
\* without questions
Quiz1Questions ==
    << [question_type |-> "mcq", marks |-> 5,
        options |-> OptArray(<<JsStr(Paris), JsStr(London), JsStr(Berlin)>>),
        correct_answer |-> JsStr(<<"0">>)],
       [question_type |-> "short_answer", marks |-> 5,
        options |-> OptNull,
        correct_answer |-> JsStr(<<"4">>)],
       \* malformed authoring data: options that JSON.parse rejects; non-array
       \* options and no correct answer
       [question_type |-> "mcq", marks |-> 5,
        options |-> OptString("throw", <<>>),
        correct_answer |-> JsStr(<<"a">>)],
       [question_type |-> "mcq", marks |-> 5,
        options |-> OptObject,
        correct_answer |-> JsNull] >>

\* req.body.answers
BodyMissing == [t |-> "undefined", m |-> <<>>]
BodyNotObject == [t |-> "string", m |-> <<>>]
BodyObject(m) == [t |-> "object", m |-> m]
AnswersA ==
    (NumStr(0) :> JsStr(<<" ", "p", "a", "r", "i", "s">>)) @@ (NumStr(1) :> JsNum(4))
    @@ (NumStr(2) :> JsStr(<<"a">>)) @@ (NumStr(3) :> JsStr(<<"a">>))
AnswersB == (NumStr(0) :> JsStr(London))
Bodies == {BodyMissing, BodyNotObject, BodyObject(AnswersA), BodyObject(AnswersB)}

\* the requests the clients send: <<route, req.user.id, req.params.id, req.body.answers>>.
\* Student 1 on quiz 1 with every body; one request of each route for the
\* second quiz and for the missing quiz; the second student's submit.
Requests ==
    {<<kind, 1, 1, BodyMissing>> : kind \in {"details", "start"}}
    \cup {<<"submit", 1, 1, body>> : body \in Bodies}
    \cup {<<kind, sq[1], sq[2], IF kind = "submit" THEN BodyObject(AnswersA) ELSE BodyMissing>> :
               kind \in Kinds, sq \in {<<1, 2>>, <<1, 3>>}}
    \cup {<<"submit", 2, 1, BodyObject(AnswersA)>>}
\* the answers column of a row that was never submitted
AnswersNull == [t |-> "null", m |-> <<>>]

NoQuiz == [subject_id |-> 0, is_active |-> FALSE, start_date |-> NullTime,
           end_date |-> NullTime, total_marks |-> 0]
\* const quiz = quizzes[0] of start and submit, which read quiz.subject_id and
\* quiz.total_marks only: the fields they never read are not kept
SubjectAndMarks(quiz) ==
    [NoQuiz EXCEPT !.subject_id = quiz.subject_id, !.total_marks = quiz.total_marks]

IdleReq ==
    [kind |-> "none", student |-> 0, quiz |-> 0, body |-> BodyMissing,
     pc |-> "idle", quizrow |-> NoQuiz, seen |-> "unread", attemptId |-> 0,
     score |-> 0, percentage |-> 0,
     resp |-> "none", error |-> "none", respAttempt |-> 0,
     \* history of the request, read by the properties only
     afterSubmit |-> FALSE, openAtStart |-> FALSE, wrote |-> FALSE]

\* is_active and the start / end bounds that are set, at instant t
Open(quiz, t) ==
    /\ quiz.is_active
    /\ (quiz.start_date = NullTime \/ quiz.start_date <= t)
    /\ (quiz.end_date = NullTime \/ quiz.end_date >= t)

\* SELECT * FROM quiz_attempts WHERE quiz_id = ? AND student_id = ?
SelectAttempts(q, s) == {a \in attempts : a.quiz_id = q /\ a.student_id = s}
\* rows[0]
FirstRow(rows) == CHOOSE a \in rows : \A b \in rows : a.id <= b.id

\* UNIQUE KEY unique_attempt (quiz_id, student_id)
DupKeyOff(q, s) == FALSE
DupKey(q, s) == SelectAttempts(q, s) # {}

\* the row INSERT INTO quiz_attempts (quiz_id, student_id) creates
NewAttempt(q, s) ==
    [id |-> nextId, quiz_id |-> q, student_id |-> s, submitted_at |-> NullTime,
     score |-> 0, percentage |-> 0, answers |-> AnswersNull]

IsEnrolled(s, subject) == <<s, subject>> \in enrolled

\* no grading run on its own
NoGrade == [phase |-> "none", question |-> Quiz1Questions[1], answer |-> JsUndef, credit |-> 0]

InFlight(r) == req[r].pc \notin {"idle", "done"}
At(r, kind, pc) == req[r].kind = kind /\ req[r].pc = pc

\* the two quizzes a teacher has authored
InitQuizzes ==
    (1 :> [subject_id |-> 1, is_active |-> TRUE, start_date |-> NullTime,
           end_date |-> 0, total_marks |-> 10])
    @@ (2 :> [subject_id |-> 1, is_active |-> FALSE, start_date |-> 1,
              end_date |-> NullTime, total_marks |-> 10])
InitQuestions == (1 :> Quiz1Questions) @@ (2 :> <<>>)

InitDb ==
    /\ quizzes = InitQuizzes
    /\ questions = InitQuestions
    /\ enrolled = {<<1, 1>>}
    /\ attempts = {}
    /\ nextId = 1
    /\ now = 0
    /\ req = [r \in Slots |-> IdleReq]
    /\ started = 0
    /\ envOps = 0

Init == InitDb /\ grade = NoGrade

\* the handler is entered with req.user.id, req.params.id and req.body.answers
StartedReq(kind, s, q, body) ==
    [IdleReq EXCEPT !.kind = kind, !.student = s, !.quiz = q,
                    !.body = body, !.pc = "quiz",
                    !.afterSubmit =
                        \E a \in SelectAttempts(q, s) : a.submitted_at # NullTime,
                    !.openAtStart = q \in DOMAIN quizzes /\ Open(quizzes[q], now)]

\* a client sends a request on the first connection that has none in flight
Begin(r, kind, s, q, body) ==
    /\ ~InFlight(r)
    /\ \A r2 \in Slots : r2 < r => InFlight(r2)
    /\ started < MaxReqs
    /\ started' = started + 1
    /\ <<kind, s, q, body>> \in Requests
    /\ req' = [req EXCEPT ![r] = StartedReq(kind, s, q, body)]
    /\ UNCHANGED <<quizzes, questions, enrolled, attempts, nextId, now, envOps, grade>>

\* res.json(...): the handler returns and its locals are gone
Reply(rq, resp) ==
    [rq EXCEPT !.pc = "done", !.resp = resp, !.quizrow = NoQuiz, !.attemptId = 0,
               !.score = 0, !.percentage = 0]
Goto(rq, pc) == [rq EXCEPT !.pc = pc]
DbUnchanged == UNCHANGED <<quizzes, questions, enrolled, attempts, nextId, now, started, envOps, grade>>

(***************************************************************************)
(* GET /quizzes/details/:id                                                *)
(***************************************************************************)
\* SELECT the quiz (with its experiment and subject)
DvQuiz(r) ==
    /\ At(r, "details", "quiz")
    /\ req' = [req EXCEPT ![r] =
                 IF req[r].quiz \notin DOMAIN quizzes THEN Reply(@, "NotFound")
                 ELSE [@ EXCEPT !.pc = "enroll", !.quizrow = quizzes[req[r].quiz]]]
    /\ DbUnchanged

\* the activity checks on the quiz row read before, against new Date()
DvWindowCheck(rq) ==
    IF ~rq.quizrow.is_active THEN Reply(rq, "NotActive")
    ELSE IF rq.quizrow.start_date # NullTime /\ rq.quizrow.start_date > now
         THEN Reply(rq, "NotStarted")
    ELSE IF rq.quizrow.end_date # NullTime /\ rq.quizrow.end_date < now
         THEN Reply(rq, "Ended")
    ELSE Goto(rq, "attempts")

\* SELECT the enrollment, then the activity checks
DvEnroll(r) ==
    /\ At(r, "details", "enroll")
    /\ req' = [req EXCEPT ![r] =
                 IF ~IsEnrolled(@.student, @.quizrow.subject_id) THEN Reply(@, "NotEnrolled")
                 ELSE DvWindowCheck(@)]
    /\ DbUnchanged

\* SELECT the attempt: a submitted one closes the quiz, an open one is reused
DvAttempts(r) ==
    /\ At(r, "details", "attempts")
    /\ LET rows == SelectAttempts(req[r].quiz, req[r].student)
       IN  req' = [req EXCEPT ![r] =
                     IF rows = {} THEN [@ EXCEPT !.pc = "insert", !.seen = "none"]
                     ELSE IF FirstRow(rows).submitted_at # NullTime
                          THEN [Reply(@, "AlreadySubmitted") EXCEPT !.seen = "submitted"]
                     ELSE [@ EXCEPT !.pc = "questions", !.seen = "open",
                                    !.attemptId = FirstRow(rows).id]]
    /\ DbUnchanged

\* INSERT the attempt; an insert error leads to the second SELECT
DvInsert(r) ==
    /\ At(r, "details", "insert")
    /\ IF DupKey(req[r].quiz, req[r].student)
       THEN /\ req' = [req EXCEPT ![r] = [@ EXCEPT !.pc = "retry", !.error = "ER_DUP_ENTRY"]]
            /\ UNCHANGED <<attempts, nextId>>
       ELSE /\ attempts' = attempts \cup {NewAttempt(req[r].quiz, req[r].student)}
            /\ nextId' = nextId + 1
            /\ req' = [req EXCEPT ![r] = [@ EXCEPT !.pc = "questions", !.attemptId = nextId,
                                                   !.wrote = TRUE]]
    /\ UNCHANGED <<quizzes, questions, enrolled, now, started, envOps, grade>>

\* catch (insertError) { throw insertError }: no second SELECT
DvRetryRethrow(r) ==
    /\ At(r, "details", "retry")
    /\ req' = [req EXCEPT ![r] = Reply(@, "ServerError")]
    /\ DbUnchanged

\* catch (insertError): SELECT again, rethrow when there is still no row
DvRetry(r) ==
    /\ At(r, "details", "retry")
    /\ LET rows == SelectAttempts(req[r].quiz, req[r].student)
       IN  req' = [req EXCEPT ![r] =
                     IF rows = {} THEN Reply(@, "ServerError")
                     ELSE IF FirstRow(rows).submitted_at # NullTime
                          THEN Reply(@, "AlreadySubmitted")
                     ELSE [@ EXCEPT !.pc = "questions", !.attemptId = FirstRow(rows).id]]
    /\ DbUnchanged

\* SELECT the questions and answer with quiz.current_attempt = attempt
DvQuestions(r) ==
    /\ At(r, "details", "questions")
    /\ req' = [req EXCEPT ![r] =
                 IF questions[req[r].quiz] = <<>> THEN Reply(@, "NoQuestions")
                 ELSE [Reply(@, "OK") EXCEPT !.respAttempt = req[r].attemptId]]
    /\ DbUnchanged

(***************************************************************************)
(* POST /quizzes/:id/start                                                 *)
(***************************************************************************)
StQuiz(r) ==
    /\ At(r, "start", "quiz")
    /\ req' = [req EXCEPT ![r] =
                 IF req[r].quiz \notin DOMAIN quizzes THEN Reply(@, "NotFound")
                 ELSE [@ EXCEPT !.pc = "enroll",
                                !.quizrow = SubjectAndMarks(quizzes[req[r].quiz])]]
    /\ DbUnchanged

StEnroll(r) ==
    /\ At(r, "start", "enroll")
    /\ req' = [req EXCEPT ![r] =
                 IF ~IsEnrolled(@.student, @.quizrow.subject_id) THEN Reply(@, "NotEnrolled")
                 ELSE Goto(@, "attempts")]
    /\ DbUnchanged

\* if (attempts.length > 0): 403 when submitted, else the existing attempt
StExistingNoReturn(rq, row) ==
    IF row.submitted_at # NullTime
    THEN [Reply(rq, "AlreadySubmitted") EXCEPT !.seen = "submitted"]
    ELSE [rq EXCEPT !.pc = "insert", !.seen = "open"]
StExistingAlwaysResume(rq, row) ==
    [Reply(rq, "OK") EXCEPT !.seen = IF row.submitted_at # NullTime THEN "submitted" ELSE "open",
                            !.respAttempt = row.id]
StExisting(rq, row) ==
    IF row.submitted_at # NullTime
    THEN [Reply(rq, "AlreadySubmitted") EXCEPT !.seen = "submitted"]
    ELSE [Reply(rq, "OK") EXCEPT !.seen = "open", !.respAttempt = row.id]

StAttempts(r) ==
    /\ At(r, "start", "attempts")
    /\ LET rows == SelectAttempts(req[r].quiz, req[r].student)
       IN  req' = [req EXCEPT ![r] =
                     IF rows = {} THEN [@ EXCEPT !.pc = "insert", !.seen = "none"]
                     ELSE StExisting(@, FirstRow(rows))]
    /\ DbUnchanged

\* INSERT the attempt; an insert error reaches the handler's catch: 500
StInsert(r) ==
    /\ At(r, "start", "insert")
    /\ IF DupKey(req[r].quiz, req[r].student)
       THEN /\ req' = [req EXCEPT ![r] =
                         [Reply(@, "ServerError") EXCEPT !.error = "ER_DUP_ENTRY"]]
            /\ UNCHANGED <<attempts, nextId>>
       ELSE /\ attempts' = attempts \cup {NewAttempt(req[r].quiz, req[r].student)}
            /\ nextId' = nextId + 1
            /\ req' = [req EXCEPT ![r] =
                         [Reply(@, "OK") EXCEPT !.respAttempt = nextId,
                                                !.wrote = TRUE]]
    /\ UNCHANGED <<quizzes, questions, enrolled, now, started, envOps, grade>>

(***************************************************************************)
(* POST /quizzes/:id/submit                                                *)
(***************************************************************************)
\* !answers || typeof answers !== 'object'
BodyInvalid(body) == body.t # "object"

\* the payload check, then SELECT the quiz
SbQuiz(r) ==
    /\ At(r, "submit", "quiz")
    /\ req' = [req EXCEPT ![r] =
                 IF BodyInvalid(@.body) THEN Reply(@, "ValidationError")
                 ELSE IF req[r].quiz \notin DOMAIN quizzes THEN Reply(@, "NotFound")
                 ELSE [@ EXCEPT !.pc = "enroll",
                                !.quizrow = SubjectAndMarks(quizzes[req[r].quiz])]]
    /\ DbUnchanged

\* if (enrollment.length === 0) return 403
SbNotEnrolledNoReturn(rq) == [rq EXCEPT !.pc = "attempts", !.resp = "NotEnrolled"]
SbNotEnrolled(rq) == Reply(rq, "NotEnrolled")

SbEnroll(r) ==
    /\ At(r, "submit", "enroll")
    /\ req' = [req EXCEPT ![r] =
                 IF ~IsEnrolled(@.student, @.quizrow.subject_id) THEN SbNotEnrolled(@)
                 ELSE Goto(@, "attempts")]
    /\ DbUnchanged

\* else branch of if (attempts.length === 0): 403 when submitted
SbExistingNoCheck(rq, row) ==
    [rq EXCEPT !.pc = "questions", !.attemptId = row.id,
               !.seen = IF row.submitted_at # NullTime THEN "submitted" ELSE "open"]
SbExisting(rq, row) ==
    IF row.submitted_at # NullTime
    THEN [Reply(rq, "AlreadySubmitted") EXCEPT !.attemptId = row.id, !.seen = "submitted"]
    ELSE [rq EXCEPT !.pc = "questions", !.attemptId = row.id, !.seen = "open"]

SbAttempts(r) ==
    /\ At(r, "submit", "attempts")
    /\ LET rows == SelectAttempts(req[r].quiz, req[r].student)
       IN  req' = [req EXCEPT ![r] =
                     IF rows = {} THEN [@ EXCEPT !.pc = "insert", !.seen = "none"]
                     ELSE SbExisting(@, FirstRow(rows))]
    /\ DbUnchanged

\* INSERT the missing attempt; an insert error reaches the handler's catch: 500
SbInsert(r) ==
    /\ At(r, "submit", "insert")
    /\ IF DupKey(req[r].quiz, req[r].student)
       THEN /\ req' = [req EXCEPT ![r] =
                         [Reply(@, "ServerError") EXCEPT !.error = "ER_DUP_ENTRY"]]
            /\ UNCHANGED <<attempts, nextId>>
       ELSE /\ attempts' = attempts \cup {NewAttempt(req[r].quiz, req[r].student)}
            /\ nextId' = nextId + 1
            /\ req' = [req EXCEPT ![r] = [@ EXCEPT !.pc = "questions", !.attemptId = nextId,
                                                   !.wrote = TRUE]]
    /\ UNCHANGED <<quizzes, questions, enrolled, now, started, envOps, grade>>

\* whether an exception leaves questions.forEach.  Each pass runs inside
\* try { ... } catch (error) { console.error(...) }, and JSON.parse inside its
\* own try: nothing leaves the loop.
GradingRaisesUncaught(qs, answers) ==
    \E k \in DOMAIN qs :
        /\ QuestionReachesParse(qs[k], StudentAnswer(answers, k - 1))
        /\ ParseThrows(qs[k].options)
GradingRaises(qs, answers) == FALSE

\* grading with a totalScore shared by the invocations and never reset: it
\* starts from the scores graded before
RECURSIVE SumScores(_)
SumScores(rows) ==
    IF rows = {} THEN 0
    ELSE LET a == CHOOSE x \in rows : TRUE
         IN  a.score + SumScores(rows \ {a})
SbQuestionsShared(r) ==
    /\ At(r, "submit", "questions")
    /\ LET qs == questions[req[r].quiz]
           totalScore == SumScores(attempts) + Grade(qs, req[r].body.m)
       IN  req' = [req EXCEPT ![r] =
                     IF qs = <<>> THEN Reply(@, "NoQuestions")
                     ELSE [@ EXCEPT !.pc = "update", !.score = totalScore,
                                    !.percentage =
                                        Percentage(totalScore, req[r].quizrow.total_marks)]]
    /\ DbUnchanged

\* SELECT the questions, grade, compute the percentage
SbQuestions(r) ==
    /\ At(r, "submit", "questions")
    /\ LET qs == questions[req[r].quiz]
           totalScore == Grade(qs, req[r].body.m)
       IN  req' = [req EXCEPT ![r] =
                     IF qs = <<>> THEN Reply(@, "NoQuestions")
                     ELSE IF GradingRaises(qs, req[r].body.m) THEN Reply(@, "ServerError")
                     ELSE [@ EXCEPT !.pc = "update", !.score = totalScore,
                                    !.percentage =
                                        Percentage(totalScore, req[r].quizrow.total_marks)]]
    /\ DbUnchanged

\* the same update without submitted_at = NOW()
SubmittedNoTimestamp(a, rq) ==
    [a EXCEPT !.answers = rq.body, !.score = rq.score, !.percentage = rq.percentage]
\* UPDATE quiz_attempts SET answers, score, percentage, submitted_at = NOW() WHERE id = ?
Submitted(a, rq) ==
    [a EXCEPT !.answers = rq.body, !.score = rq.score, !.percentage = rq.percentage,
              !.submitted_at = now]

\* UPDATE quiz_attempts SET ... WHERE quiz_id = ?: every row of the quiz
SbUpdateWholeQuiz(r) ==
    /\ At(r, "submit", "update")
    /\ attempts' = {IF a.quiz_id = req[r].quiz THEN Submitted(a, req[r]) ELSE a : a \in attempts}
    /\ req' = [req EXCEPT ![r] = [Reply(@, "OK") EXCEPT !.wrote = TRUE]]
    /\ UNCHANGED <<quizzes, questions, enrolled, nextId, now, started, envOps, grade>>

SbUpdate(r) ==
    /\ At(r, "submit", "update")
    /\ attempts' = {IF a.id = req[r].attemptId THEN Submitted(a, req[r]) ELSE a : a \in attempts}
    /\ req' = [req EXCEPT ![r] = [Reply(@, "OK") EXCEPT !.wrote = TRUE]]
    /\ UNCHANGED <<quizzes, questions, enrolled, nextId, now, started, envOps, grade>>

(***************************************************************************)
(* The environment of the student routes: the clock, the teacher's         *)
(* PUT /quizzes/:id/activate and PUT /quizzes/:id, and the admin's         *)
(* PUT /students/:id.                                                      *)
(***************************************************************************)
Tick ==
    /\ envOps < MaxEnvOps
    /\ now' = now + 1
    /\ envOps' = envOps + 1
    /\ UNCHANGED <<quizzes, questions, enrolled, attempts, nextId, req, started, grade>>

\* UPDATE quizzes SET is_active = ? WHERE id = ?
TeacherActivate(q, is_active) ==
    /\ envOps < MaxEnvOps
    /\ q \in DOMAIN quizzes
    /\ quizzes[q].is_active # is_active
    /\ quizzes' = [quizzes EXCEPT ![q].is_active = is_active]
    /\ envOps' = envOps + 1
    /\ UNCHANGED <<questions, enrolled, attempts, nextId, now, req, started, grade>>

\* DELETE FROM student_subjects WHERE student_id = ?, then INSERT the new list;
\* the table between the two queries is the one AdminSetSubjects(s, {}) leaves
AdminSetSubjects(s, subject_ids) ==
    /\ envOps < MaxEnvOps
    /\ enrolled' = {e \in enrolled : e[1] # s} \cup {<<s, x>> : x \in subject_ids}
    /\ enrolled' # enrolled
    /\ envOps' = envOps + 1
    /\ UNCHANGED <<quizzes, questions, attempts, nextId, now, req, started, grade>>

\* PUT /quizzes/:id with total_marks alone in the body:
\* UPDATE quizzes SET total_marks = ? WHERE id = ?
QuizTotals == {0, 10}
\* the quizzes whose total a submit gets to read: those that have questions
GradedQuizIds == {q \in QuizIds : questions[q] # <<>>}
TeacherUpdate(q, total_marks) ==
    /\ envOps < MaxEnvOps
    /\ q \in DOMAIN quizzes
    /\ quizzes[q].total_marks # total_marks
    /\ quizzes' = [quizzes EXCEPT ![q].total_marks = total_marks]
    /\ envOps' = envOps + 1
    /\ UNCHANGED <<questions, enrolled, attempts, nextId, now, req, started, grade>>

Next ==
    \/ \E r \in Slots, kind \in Kinds, s \in Students, q \in ParamQuizIds, body \in Bodies :
          Begin(r, kind, s, q, body)
    \/ \E r \in Slots : DvQuiz(r)
    \/ \E r \in Slots : DvEnroll(r)
    \/ \E r \in Slots : DvAttempts(r)
    \/ \E r \in Slots : DvInsert(r)
    \/ \E r \in Slots : DvRetry(r)
    \/ \E r \in Slots : DvQuestions(r)
    \/ \E r \in Slots : StQuiz(r)
    \/ \E r \in Slots : StEnroll(r)
    \/ \E r \in Slots : StAttempts(r)
    \/ \E r \in Slots : StInsert(r)
    \/ \E r \in Slots : SbQuiz(r)
    \/ \E r \in Slots : SbEnroll(r)
    \/ \E r \in Slots : SbAttempts(r)
    \/ \E r \in Slots : SbInsert(r)
    \/ \E r \in Slots : SbQuestions(r)
    \/ \E r \in Slots : SbUpdate(r)
    \/ Tick
    \/ \E q \in QuizIds, b \in BOOLEAN : TeacherActivate(q, b)
    \/ \E q \in GradedQuizIds, total_marks \in QuizTotals : TeacherUpdate(q, total_marks)
    \/ \E s \in Students, subs \in SUBSET Subjects : AdminSetSubjects(s, subs)

Spec == Init /\ [][Next]_vars

(***************************************************************************)
(* The grading loop on its own: one question at ordinal 0 and the answer   *)
(* stored under key 0, over every text of the alphabet up to MaxLen.       *)
(***************************************************************************)
Chars == {" ", "a", "A", "0", "1"}
RECURSIVE TextsOfLen(_)
TextsOfLen(n) == IF n = 0 THEN {<<>>}
                 ELSE {<<c>> \o t : c \in Chars, t \in TextsOfLen(n - 1)}
Texts(n) == UNION {TextsOfLen(k) : k \in 0..n}

GAnswers == {JsUndef, JsNull, JsNum(0), JsNum(1)} \cup {JsStr(t) : t \in Texts(MaxLen)}
GCorrect == {JsNull} \cup {JsStr(t) : t \in Texts(2)}
OptionsAB == <<JsStr(<<"A">>), JsStr(<<"a", "1">>)>>
GOptions ==
    {OptNull, OptObject, OptObjectOf(OptionsAB), OptArray(<<>>), OptArray(OptionsAB),
     OptArray(<<JsStr(<<>>), JsNum(1)>>),
     OptString("throw", <<>>), OptString("array", OptionsAB), OptString("object", <<>>)}
GQuestions ==
    [question_type : {"mcq", "short_answer"}, marks : {10},
     options : GOptions, correct_answer : GCorrect]

GradeInit ==
    /\ InitDb
    /\ grade \in [phase : {"input"}, question : GQuestions, answer : GAnswers, credit : {0}]

\* questions.forEach(...) over the one question, answers = {0: answer}
GradeRun ==
    /\ grade.phase = "input"
    /\ grade' = [grade EXCEPT !.phase = "graded",
                              !.credit = Grade(<<grade.question>>, (NumStr(0) :> grade.answer))]
    /\ UNCHANGED <<quizzes, questions, enrolled, attempts, nextId, now, req, started, envOps>>

GradeSpec == GradeInit /\ [][GradeRun]_vars

(***************************************************************************)
(* Grading and the analytics tally of the same stored answers: one         *)
(* question at ordinal 0, the answers mapping with the keys 0 and          *)
(* question-0.                                                             *)
(***************************************************************************)
TallyTemplated == {JsUndef, JsStr(<<"a">>)}
TallyAnswers ==
    {(NumStr(0) :> a) @@ (TemplateKey(0) :> b) : a \in GAnswers, b \in TallyTemplated}

TallyInit ==
    /\ InitDb
    /\ grade \in [phase : {"input"}, question : GQuestions, answers : TallyAnswers,
                  credit : {0}, correct : {FALSE}]

\* submit: questions.forEach(...) over the one question
TallyGrade ==
    /\ grade.phase = "input"
    /\ grade' = [grade EXCEPT !.phase = "graded",
                              !.credit = Grade(<<grade.question>>, grade.answers)]
    /\ UNCHANGED <<quizzes, questions, enrolled, attempts, nextId, now, req, started, envOps>>

\* analysis: attempts.forEach(...) over the one attempt, for the question
TallyAnalyse ==
    /\ grade.phase = "graded"
    /\ grade' = [grade EXCEPT !.phase = "analysed",
                              !.correct = AnalysisCorrect(grade.question, grade.answers, 0)]
    /\ UNCHANGED <<quizzes, questions, enrolled, attempts, nextId, now, req, started, envOps>>

TallyNext == TallyGrade \/ TallyAnalyse
TallySpec == TallyInit /\ [][TallyNext]_vars

(***************************************************************************)
(* The grading loop and the percentage over whole question lists: every    *)
(* list of up to MaxQuestions questions of the pool, every answers mapping *)
(* over their ordinals, and a declared total below, at and above the sum.  *)
(***************************************************************************)
ScorePool ==
    {[question_type |-> "mcq", marks |-> 5, options |-> OptArray(OptionsAB),
      correct_answer |-> JsStr(<<"0">>)],
     [question_type |-> "mcq", marks |-> 5, options |-> OptString("throw", <<>>),
      correct_answer |-> JsStr(<<"a">>)],
     \* the option the correct answer points at has the text of the correct
     \* answer itself
     [question_type |-> "mcq", marks |-> 5, options |-> OptArray(<<JsStr(<<"0">>)>>),
      correct_answer |-> JsStr(<<"0">>)],
     [question_type |-> "short_answer", marks |-> 10, options |-> OptNull,
      correct_answer |-> JsStr(<<"a">>)],
     [question_type |-> "short_answer", marks |-> 5, options |-> OptNull,
      correct_answer |-> JsNull],
     \* marks INT NOT NULL is not checked on authoring: a negative value is stored
     [question_type |-> "short_answer", marks |-> 0 - 5, options |-> OptNull,
      correct_answer |-> JsStr(<<"a">>)]}
ScoreLists == UNION {[1..n -> ScorePool] : n \in 1..MaxQuestions}
\* answers[i]: absent (undefined) or one of these values
ScoreValues ==
    {JsUndef, JsStr(<<"a">>), JsStr(<<" ", "A">>), JsStr(<<"0">>), JsStr(<<>>), JsNum(0)}
ScoreAnswers == [{NumStr(i) : i \in 0..(MaxQuestions - 1)} -> ScoreValues]
ScoreTotals == {0, 5, 10}

ScoreInit ==
    /\ InitDb
    /\ grade \in [phase : {"input"}, qs : ScoreLists, answers : ScoreAnswers,
                  total_marks : ScoreTotals, score : {0}, percentage : {0}]

\* let totalScore = 0; questions.forEach(...); const percentage = ...
ScoreRun ==
    /\ grade.phase = "input"
    /\ LET totalScore == Grade(grade.qs, grade.answers)
       IN  grade' = [grade EXCEPT !.phase = "graded", !.score = totalScore,
                                  !.percentage = Percentage(totalScore, grade.total_marks)]
    /\ UNCHANGED <<quizzes, questions, enrolled, attempts, nextId, now, req, started, envOps>>

ScoreSpec == ScoreInit /\ [][ScoreRun]_vars

(***************************************************************************)
(* GET /analysis/quiz/:quiz_id/questions over a stored quiz_attempts       *)
(* table: one row at most per student, in progress or submitted, for the   *)
(* quiz with questions or for the other one.                               *)
(***************************************************************************)
\* number of students who may hold an attempt
MaxAttempts == 4

\* attempt.answers received as a string: JSON.parse of it throws, or gives
\* null, a string (m is its text) or an object (m is its mapping)
StoredText(parse, m) == [t |-> "text", parse |-> parse, m |-> m]

\* the pass of attempts.forEach is left early: JSON.parse throws (catch
\* parseError: return), or answers is null and answers[index] throws (catch
\* error)
AttemptSkipped(stored) == stored.t = "text" /\ stored.parse \in {"throw", "null"}

\* let answers = {}; ... : the object the lookup reads.  A parsed string is
\* indexed as an object: s[i] is its character at i
ParsedAnswers(stored) ==
    IF stored.t = "object" THEN stored.m
    ELSE IF stored.t = "text" /\ stored.parse = "object" THEN stored.m
    ELSE IF stored.t = "text" /\ stored.parse = "string"
         THEN [k \in {NumStr(i) : i \in 0..(Len(stored.m) - 1)} |->
                  JsStr(<<stored.m[DecValue(k) + 1]>>)]
    ELSE << >>

\* one pass of attempts.forEach: correctCount++ or not
AttemptCorrect(question, stored, index) ==
    /\ ~AttemptSkipped(stored)
    /\ AnalysisCorrect(question, ParsedAnswers(stored), index)

\* SELECT answers FROM quiz_attempts WHERE quiz_id = ?, without the test of
\* submitted_at
SelectAnyAnswers(q) == {a \in attempts : a.quiz_id = q}
\* SELECT answers FROM quiz_attempts WHERE quiz_id = ? AND submitted_at IS NOT NULL
SelectSubmittedAnswers(q) == {a \in attempts : a.quiz_id = q /\ a.submitted_at # NullTime}

\* whether an exception leaves attempts.forEach: each pass runs inside
\* try { ... } catch (error) { console.error(...) }
AnalysisRaisesUncaught(rows) == \E a \in rows : AttemptSkipped(a.answers)
AnalysisRaises(rows) == FALSE

\* totalAttempts > 0 ? Math.min(100, correctCount / totalAttempts * 100).toFixed(2) : 0,
\* in hundredths
Accuracy(correctCount, totalAttempts) ==
    IF totalAttempts > 0
    THEN IF correctCount >= totalAttempts THEN 10000
         ELSE ToFixed2(correctCount * 100, totalAttempts)
    ELSE 0

\* questions.map((question, index) => ...) over the selected rows
QuestionAnalysis(qs, rows) ==
    [k \in DOMAIN qs |->
        LET correctCount ==
                Cardinality({a \in rows : AttemptCorrect(qs[k], a.answers, k - 1)})
            totalAttempts == Cardinality(rows)
        IN  [correct_answers |-> correctCount,
             total_attempts |-> totalAttempts,
             accuracy_percentage |-> Accuracy(correctCount, totalAttempts)]]

\* what a student holds: nothing, an attempt in progress, a submitted one with
\* one of the values of the answers column
RowKinds ==
    {[quiz_id |-> 0, submitted_at |-> NullTime, answers |-> AnswersNull],
     [quiz_id |-> 1, submitted_at |-> NullTime, answers |-> AnswersNull],
     [quiz_id |-> 2, submitted_at |-> 0, answers |-> BodyObject(AnswersA)]}
    \cup {[quiz_id |-> 1, submitted_at |-> 0, answers |-> s] :
              s \in {BodyObject(AnswersA), BodyObject(AnswersB),
                     StoredText("throw", << >>), StoredText("null", << >>),
                     StoredText("string", <<"0">>)}}

\* the row of student s, with the score and percentage its submit stored
StoredRow(s, kind) ==
    LET committed == kind.quiz_id = 1 /\ kind.submitted_at # NullTime
                         /\ kind.answers.t = "object"
        score == IF committed THEN Grade(Quiz1Questions, kind.answers.m) ELSE 0
    IN  [id |-> s, quiz_id |-> kind.quiz_id, student_id |-> s,
         submitted_at |-> kind.submitted_at, score |-> score,
         percentage |-> IF committed THEN Percentage(score, 10) ELSE 0,
         answers |-> kind.answers]

\* the request: req.params.quiz_id, and whether teacher_subjects holds a row of
\* the teacher for the subject of the quiz
AnalysisInit ==
    /\ quizzes = InitQuizzes
    /\ questions = InitQuestions
    /\ enrolled = {}
    /\ \E held \in [1..MaxAttempts -> RowKinds] :
          attempts = {StoredRow(s, held[s]) : s \in {x \in 1..MaxAttempts : held[x].quiz_id # 0}}
    /\ nextId = MaxAttempts + 1
    /\ now = 0
    /\ req = [r \in Slots |-> IdleReq]
    /\ started = 0
    /\ envOps = 0
    /\ grade \in [phase : {"quiz"}, quiz : ParamQuizIds, access : BOOLEAN, qs : {<< >>},
                  resp : {"none"}, report : {<< >>}]

\* SELECT * FROM quizzes WHERE id = ?
AnQuiz ==
    /\ grade.phase = "quiz"
    /\ grade' = IF grade.quiz \notin DOMAIN quizzes
                THEN [grade EXCEPT !.phase = "done", !.resp = "NotFound"]
                ELSE [grade EXCEPT !.phase = "access"]
    /\ UNCHANGED <<quizzes, questions, enrolled, attempts, nextId, now, req, started, envOps>>

\* SELECT * FROM teacher_subjects WHERE teacher_id = ? AND subject_id = ?
AnAccess ==
    /\ grade.phase = "access"
    /\ grade' = IF ~grade.access
                THEN [grade EXCEPT !.phase = "done", !.resp = "Forbidden"]
                ELSE [grade EXCEPT !.phase = "questions"]
    /\ UNCHANGED <<quizzes, questions, enrolled, attempts, nextId, now, req, started, envOps>>

\* SELECT * FROM questions WHERE quiz_id = ? ORDER BY id
AnQuestions ==
    /\ grade.phase = "questions"
    /\ grade' = [grade EXCEPT !.phase = "attempts", !.qs = questions[grade.quiz]]
    /\ UNCHANGED <<quizzes, questions, enrolled, attempts, nextId, now, req, started, envOps>>

\* SELECT the submitted attempts, tally every question, res.json(questionAnalysis)
AnAttempts ==
    /\ grade.phase = "attempts"
    /\ LET rows == SelectSubmittedAnswers(grade.quiz)
       IN  grade' = IF AnalysisRaises(rows)
                    THEN [grade EXCEPT !.phase = "done", !.resp = "ServerError"]
                    ELSE [grade EXCEPT !.phase = "done", !.resp = "OK",
                                       !.report = QuestionAnalysis(grade.qs, rows)]
    /\ UNCHANGED <<quizzes, questions, enrolled, attempts, nextId, now, req, started, envOps>>

AnalysisNext == AnQuiz \/ AnAccess \/ AnQuestions \/ AnAttempts
AnalysisSpec == AnalysisInit /\ [][AnalysisNext]_vars

(***************************************************************************)
(* The question list of the detail-view response, computed for two quizzes *)
(* whose questions differ in nothing but their correct_answer.             *)
(***************************************************************************)
\* parsedOptions: the parsed text, the array itself, null for anything else
\* and for a text that JSON.parse rejects
ParsedOptions(o) ==
    IF ~OptionsTruthy(o) THEN OptNull
    ELSE IF o.t = "string"
         THEN IF ParseThrows(o) THEN OptNull
              ELSE IF o.parse = "array" THEN OptArray(o.items)
              ELSE OptObjectOf(o.items)
    ELSE IF o.t = "array" THEN o
    ELSE OptNull

\* the rows as stored, every column, with the options parsed
QuestionsAsStored(qs) ==
    [k \in DOMAIN qs |->
        [id |-> k, question_type |-> qs[k].question_type, marks |-> qs[k].marks,
         options |-> ParsedOptions(qs[k].options), correct_answer |-> qs[k].correct_answer]]
\* SELECT id, question_text, question_type, marks, options FROM questions ...
\* ORDER BY id, then questions.map(q => ({id, question_text, question_type,
\* marks, options: parsedOptions}))
QuestionsForStudent(qs) ==
    [k \in DOMAIN qs |->
        [id |-> k, question_type |-> qs[k].question_type, marks |-> qs[k].marks,
         options |-> ParsedOptions(qs[k].options)]]

ViewOptions ==
    {OptNull, OptObjectOf(OptionsAB), OptArray(OptionsAB),
     OptString("throw", <<>>), OptString("array", OptionsAB)}
\* a question without its correct_answer
ViewColumns == [question_type : {"mcq", "short_answer"}, marks : {5}, options : ViewOptions]
WithCorrect(cols, correct) ==
    [k \in DOMAIN cols |->
        [question_type |-> cols[k].question_type, marks |-> cols[k].marks,
         options |-> cols[k].options, correct_answer |-> correct[k]]]

\* two question lists equal in every column but correct_answer
ViewInit ==
    /\ InitDb
    /\ \E n \in 0..MaxQuestions :
          \E cols \in [1..n -> ViewColumns],
             c1 \in [1..n -> {JsStr(<<"0">>), JsStr(<<"a">>)}],
             c2 \in [1..n -> {JsStr(<<"0">>), JsStr(<<"a">>)}] :
              grade = [phase |-> "questions", qs |-> WithCorrect(cols, c1),
                       alt |-> WithCorrect(cols, c2), resp |-> "none", view |-> << >>,
                       altResp |-> "none", altView |-> << >>]

\* the last step of the detail view, on the one quiz and on the other
ViewRun ==
    /\ grade.phase = "questions"
    /\ grade' = [grade EXCEPT
                   !.phase = "done",
                   !.resp = IF grade.qs = << >> THEN "NoQuestions" ELSE "OK",
                   !.view = IF grade.qs = << >> THEN << >> ELSE QuestionsForStudent(grade.qs),
                   !.altResp = IF grade.alt = << >> THEN "NoQuestions" ELSE "OK",
                   !.altView = IF grade.alt = << >> THEN << >> ELSE QuestionsForStudent(grade.alt)]
    /\ UNCHANGED <<quizzes, questions, enrolled, attempts, nextId, now, req, started, envOps>>

ViewSpec == ViewInit /\ [][ViewRun]_vars

(***************************************************************************)
(* POST /quizzes of the teacher routes: the quiz and its questions are     *)
(* inserted on one connection inside a transaction.  quizzes and questions *)
(* are the committed tables, which is what every other connection reads;   *)
(* the rows written and not yet committed are kept with the handler.       *)
(***************************************************************************)
\* a value the request leaves out
Absent == -1
\* req.body.total_marks
\* an element of req.body.questions
QuestionItems ==
    [question_type : {"undefined", "short_answer"}, marks : {Absent, 5},
     options : {OptNull, OptArray(OptionsAB)}, correct_answer : {JsStr(<<"0">>)}]

\* the row INSERT INTO questions stores for the item: question_type || 'mcq',
\* options ? JSON.stringify(options) : null
StoredQuestion(item) ==
    [question_type |-> IF item.question_type = "undefined" THEN "mcq" ELSE item.question_type,
     marks |-> item.marks, options |-> item.options, correct_answer |-> item.correct_answer]
\* marks INT NOT NULL: the INSERT of an item without marks fails
QuestionInsertFails(item) == item.marks = Absent
\* total_marks INT NOT NULL
QuizInsertFails(total_marks) == total_marks = Absent

\* the row INSERT INTO quizzes stores: is_active BOOLEAN DEFAULT FALSE
StoredQuiz(subject_id, total_marks) ==
    [subject_id |-> subject_id, is_active |-> FALSE, start_date |-> NullTime,
     end_date |-> NullTime, total_marks |-> total_marks]
\* AUTO_INCREMENT of quizzes
NextQuizId == 3

\* the tables with the rows the connection has written
WrittenTables(g) ==
    IF g.quizId = 0 THEN [quizzes |-> quizzes, questions |-> questions]
    ELSE [quizzes |-> quizzes @@ (g.quizId :> StoredQuiz(1, g.total_marks)),
          questions |-> questions @@ (g.quizId :> g.pending)]
\* autocommit: the rows written before the failure stay
RollbackKeepsWrites(g) == WrittenTables(g)
\* connection.rollback(): the rows written since beginTransaction are gone
Rollback(g) == [quizzes |-> quizzes, questions |-> questions]

CreateInit ==
    /\ InitDb
    /\ \E n \in 0..MaxQuestions :
          grade \in [phase : {"access"}, access : BOOLEAN, total_marks : {Absent, 10},
                     items : [1..n -> QuestionItems], quizId : {0}, pending : {<< >>},
                     resp : {"none"}]

\* SELECT * FROM teacher_subjects ..., then getConnection and beginTransaction
CqAccess ==
    /\ grade.phase = "access"
    /\ grade' = IF ~grade.access
                THEN [grade EXCEPT !.phase = "done", !.resp = "Forbidden"]
                ELSE [grade EXCEPT !.phase = "quiz"]
    /\ UNCHANGED <<quizzes, questions>>
    /\ UNCHANGED <<enrolled, attempts, nextId, now, req, started, envOps>>

\* INSERT INTO quizzes, inside the transaction
CqInsertQuiz ==
    /\ grade.phase = "quiz"
    /\ grade' = IF QuizInsertFails(grade.total_marks)
                THEN [grade EXCEPT !.phase = "rollback"]
                ELSE [grade EXCEPT !.quizId = NextQuizId,
                                   !.phase = IF grade.items = << >> THEN "commit" ELSE "question"]
    /\ UNCHANGED <<quizzes, questions>>
    /\ UNCHANGED <<enrolled, attempts, nextId, now, req, started, envOps>>

\* for (const question of questions): INSERT INTO questions, inside the transaction
CqInsertQuestion ==
    /\ grade.phase = "question"
    /\ LET item == grade.items[Len(grade.pending) + 1]
       IN  grade' = IF QuestionInsertFails(item)
                    THEN [grade EXCEPT !.phase = "rollback"]
                    ELSE [grade EXCEPT
                            !.pending = Append(@, StoredQuestion(item)),
                            !.phase = IF Len(grade.pending) + 1 = Len(grade.items)
                                      THEN "commit" ELSE "question"]
    /\ UNCHANGED <<quizzes, questions>>
    /\ UNCHANGED <<enrolled, attempts, nextId, now, req, started, envOps>>

\* connection.commit(); res.json({message, id})
CqCommit ==
    /\ grade.phase = "commit"
    /\ quizzes' = WrittenTables(grade).quizzes
    /\ questions' = WrittenTables(grade).questions
    /\ grade' = [grade EXCEPT !.phase = "done", !.resp = "OK"]
    /\ UNCHANGED <<enrolled, attempts, nextId, now, req, started, envOps>>

\* catch (error) { await connection.rollback(); throw error }, then the 500
CqRollback ==
    /\ grade.phase = "rollback"
    /\ quizzes' = Rollback(grade).quizzes
    /\ questions' = Rollback(grade).questions
    /\ grade' = [grade EXCEPT !.phase = "done", !.resp = "ServerError"]
    /\ UNCHANGED <<enrolled, attempts, nextId, now, req, started, envOps>>

CreateNext == CqAccess \/ CqInsertQuiz \/ CqInsertQuestion \/ CqCommit \/ CqRollback
CreateSpec == CreateInit /\ [][CreateNext]_vars

(***************************************************************************)
(* One request to the student router: router.use(authenticate), then       *)
(* router.use(authorize('student')), then the handler of the route, which  *)
(* runs on the first connection.  With a single request in flight the      *)
(* second SELECT of the detail view, which follows a duplicate key, has no *)
(* part.                                                                   *)
(***************************************************************************)
\* the users table: id -> role; user 5 does not exist
Users == (1 :> "student") @@ (2 :> "student") @@ (3 :> "teacher") @@ (4 :> "admin")
\* the Authorization header: absent, a token jwt.verify rejects, or a token
\* that verifies and decodes to userId
NoToken == [kind |-> "none", userId |-> 0]
BadToken == [kind |-> "invalid", userId |-> 0]
TokenOf(userId) == [kind |-> "valid", userId |-> userId]
Tokens == {NoToken, BadToken} \cup {TokenOf(u) : u \in {1, 3, 4, 5}}

\* roles.includes(req.user.role), without the test
RoleAllowedAny(role) == TRUE
\* authorize('student'): roles.includes(req.user.role)
RoleAllowed(role) == role \in {"student"}

\* the requests: route, req.params.id, req.body.answers
AuthRequests ==
    {[route |-> "scores", quiz |-> 0, body |-> BodyMissing]}
    \cup [route : {"details", "start"}, quiz : ParamQuizIds, body : {BodyMissing}]
    \cup [route : {"submit"}, quiz : ParamQuizIds, body : {BodyNotObject, BodyObject(AnswersA)}]

\* a committed attempt of student 1 for quiz 1
StoredAttempt ==
    [id |-> 1, quiz_id |-> 1, student_id |-> 1, submitted_at |-> 0,
     score |-> Grade(Quiz1Questions, AnswersA),
     percentage |-> Percentage(Grade(Quiz1Questions, AnswersA), 10),
     answers |-> BodyObject(AnswersA)]

AuthInit ==
    /\ quizzes = InitQuizzes
    /\ questions = InitQuestions
    /\ enrolled = {<<1, 1>>}
    /\ \/ attempts = {} /\ nextId = 1
       \/ attempts = {StoredAttempt} /\ nextId = 2
    /\ now = 0
    /\ req = [r \in Slots |-> IdleReq]
    /\ started = 0
    /\ envOps = 0
    /\ \E t \in Tokens, rq \in AuthRequests :
          grade = [phase |-> "authenticate", token |-> t, route |-> rq.route,
                   quiz |-> rq.quiz, body |-> rq.body, user |-> 0, role |-> "none",
                   resp |-> "none", scores |-> {}]

\* authenticate: the header, jwt.verify, SELECT ... FROM users WHERE id = ?
AuAuthenticate ==
    /\ grade.phase = "authenticate"
    /\ grade' = IF grade.token.kind # "valid" \/ grade.token.userId \notin DOMAIN Users
                THEN [grade EXCEPT !.phase = "done", !.resp = "Unauthorized"]
                ELSE [grade EXCEPT !.phase = "authorize", !.user = grade.token.userId,
                                   !.role = Users[grade.token.userId]]
    /\ UNCHANGED req
    /\ UNCHANGED <<quizzes, questions, enrolled, attempts, nextId, now, started, envOps>>

\* authorize('student')
AuAuthorize ==
    /\ grade.phase = "authorize"
    /\ grade' = IF grade.user = 0
                THEN [grade EXCEPT !.phase = "done", !.resp = "Unauthorized"]
                ELSE IF ~RoleAllowed(grade.role)
                     THEN [grade EXCEPT !.phase = "done", !.resp = "Forbidden"]
                ELSE [grade EXCEPT !.phase = "route"]
    /\ UNCHANGED req
    /\ UNCHANGED <<quizzes, questions, enrolled, attempts, nextId, now, started, envOps>>

\* next(): the handler of the detail view, start or submit is entered
AuDispatch ==
    /\ grade.phase = "route" /\ grade.route \in Kinds
    /\ req' = [req EXCEPT ![1] = StartedReq(grade.route, grade.user, grade.quiz, grade.body)]
    /\ grade' = [grade EXCEPT !.phase = "handler"]
    /\ UNCHANGED <<quizzes, questions, enrolled, attempts, nextId, now, started, envOps>>

\* GET /scores: SELECT ... FROM quiz_attempts qa ... WHERE qa.student_id = ?
\* AND qa.submitted_at IS NOT NULL
ScScores ==
    /\ grade.phase = "route" /\ grade.route = "scores"
    /\ grade' = [grade EXCEPT
                   !.phase = "done", !.resp = "OK",
                   !.scores = {a \in attempts : a.student_id = grade.user
                                                /\ a.submitted_at # NullTime}]
    /\ UNCHANGED req
    /\ UNCHANGED <<quizzes, questions, enrolled, attempts, nextId, now, started, envOps>>

AuthNext ==
    \/ AuAuthenticate
    \/ AuAuthorize
    \/ AuDispatch
    \/ ScScores
    \/ DvQuiz(1)
    \/ DvEnroll(1)
    \/ DvAttempts(1)
    \/ DvInsert(1)
    \/ DvQuestions(1)
    \/ StQuiz(1)
    \/ StEnroll(1)
    \/ StAttempts(1)
    \/ StInsert(1)
    \/ SbQuiz(1)
    \/ SbEnroll(1)
    \/ SbAttempts(1)
    \/ SbInsert(1)
    \/ SbQuestions(1)
    \/ SbUpdate(1)

AuthSpec == AuthInit /\ [][AuthNext]_vars

(***************************************************************************)
(* Properties.                                                             *)
(***************************************************************************)
\* normalize(raw) is the sentinel "empty"
IsEmpty(v) == v.t \notin {"string", "number"} \/ Normalize(v) = <<>>

\* resolve(question): the accepted forms.  The literal correct answer, and for
\* a multiple-choice question whose options deserialize to a list the text
\* of the option that the correct answer indexes; nothing when the correct
\* answer is missing or empty.
AcceptedSet(question) ==
    IF IsEmpty(question.correct_answer) THEN {}
    ELSE LET nca == Normalize(question.correct_answer)
             idx == parseInt(nca)
             byIndex ==
                 IF /\ question.question_type = "mcq"
                    /\ IsArray(question.options)
                    /\ ~idx.nan
                    /\ idx.val \in 0..(Len(question.options.items) - 1)
                    /\ ~IsEmpty(question.options.items[idx.val + 1])
                 THEN {Normalize(question.options.items[idx.val + 1])}
                 ELSE {}
         IN  {nca} \cup byIndex

Accepts(question, answer) == ~IsEmpty(answer) /\ Normalize(answer) \in AcceptedSet(question)

RECURSIVE SumAccepted(_, _, _)
SumAccepted(qs, answers, k) ==
    IF k = 0 THEN 0
    ELSE SumAccepted(qs, answers, k - 1)
         + (IF Accepts(qs[k], GetProp(answers, NumStr(k - 1))) THEN qs[k].marks ELSE 0)

Done(r) == req[r].pc = "done"
\* the step taken is a step of the handler on connection r
Acts(r) == InFlight(r) /\ req'[r] # req[r]
PairRows(r) == SelectAttempts(req[r].quiz, req[r].student)
IsSubmitted(a) == a.submitted_at # NullTime

\* C1: in every reachable state, under any interleaving of detail-view, start
\* and submit requests, there is at most one attempt record per
\* (quiz, student) pair.
C1_AtMostOneAttemptPerPair ==
    \A a, b \in attempts :
        a.quiz_id = b.quiz_id /\ a.student_id = b.student_id => a = b

\* a second insert for the pair was attempted and refused, one row remains
C1_Witness ==
    \E r \in Slots :
        /\ req[r].error = "ER_DUP_ENTRY"
        /\ Cardinality(PairRows(r)) = 1

\* C2 as stated: every request that begins after a submit for its pair has
\* committed is rejected as already submitted and writes nothing.
C2_Original ==
    \A r \in Slots :
        req[r].afterSubmit /\ Done(r) =>
            req[r].resp = "AlreadySubmitted" /\ ~req[r].wrote

\* the rejections a handler issues before it reads the attempt
EarlyRejections(kind) ==
    CASE kind = "details" -> {"NotEnrolled", "NotActive", "NotStarted", "Ended"}
      [] kind = "start" -> {"NotEnrolled"}
      [] OTHER -> {"ValidationError", "NotEnrolled"}

C2_Rejected ==
    \A r \in Slots :
        req[r].afterSubmit =>
            /\ ~req[r].wrote
            /\ req[r].seen \in {"unread", "submitted"}
            /\ Done(r) =>
                  IF req[r].seen = "submitted"
                  THEN req[r].resp = "AlreadySubmitted"
                  ELSE req[r].resp \in EarlyRejections(req[r].kind)

\* C2: a request that begins after a submit for its pair has committed never
\* changes the attempts table and never re-grades; it is rejected as already
\* submitted when it gets as far as reading the attempt, and otherwise by one
\* of the checks that precede that read (payload, enrollment, and for the
\* detail view the activity window).
C2_SubmittedIsTerminal ==
    /\ []C2_Rejected
    /\ [][\A r \in Slots : req[r].afterSubmit /\ Acts(r) =>
              /\ attempts' = attempts
              /\ req'[r].pc # "update"]_vars

C2_Witness ==
    \E r \in Slots :
        /\ req[r].afterSubmit
        /\ Done(r)
        /\ req[r].resp = "AlreadySubmitted"
        /\ \E a \in PairRows(r) : IsSubmitted(a)

\* C3 as stated: once submitted_at is set, no later write changes the row.
C3_Original ==
    [][\A a \in attempts : IsSubmitted(a) => a \in attempts']_vars

\* C3: a submit that read the attempt as submitted never writes; a submitted
\* row is rewritten only by the UPDATE of a submit request that read the
\* attempt (or found none) before the first commit, and it stays submitted.
C3_WriteBlockedOnceObserved ==
    /\ [](\A r \in Slots :
            req[r].kind = "submit" /\ req[r].seen = "submitted" =>
                /\ ~req[r].wrote
                /\ req[r].pc \in {"done"}
                /\ req[r].resp = "AlreadySubmitted")
    /\ [][\A a \in attempts :
            IsSubmitted(a) /\ a \notin attempts' =>
                \E r \in Slots :
                    /\ At(r, "submit", "update")
                    /\ Acts(r)
                    /\ req[r].attemptId = a.id
                    /\ req[r].seen \in {"none", "open"}
                    /\ ~req[r].afterSubmit
                    /\ attempts' = (attempts \ {a}) \cup {Submitted(a, req[r])}
                    /\ IsSubmitted(Submitted(a, req[r]))]_vars

\* two submits of the pair with different answers both committed
C3_Witness ==
    /\ \E r1, r2 \in Slots :
        /\ r1 # r2
        /\ req[r1].kind = "submit" /\ req[r2].kind = "submit"
        /\ req[r1].quiz = req[r2].quiz /\ req[r1].student = req[r2].student
        /\ req[r1].resp = "OK" /\ req[r2].resp = "OK"
        /\ req[r1].body # req[r2].body
        /\ \E a \in PairRows(r1) : IsSubmitted(a)

\* C4: the request whose insert hits the uniqueness violation re-fetches the
\* existing record and completes normally; no racing request is answered
\* with a server error.
C4_DupKeyRecovered ==
    \A r \in Slots :
        req[r].error = "ER_DUP_ENTRY" => req[r].resp # "ServerError"

\* the rows a step adds to quiz_attempts
Created == {a \in attempts' : \A b \in attempts : b.id # a.id}

\* C5: an attempt record is created only when, at creation time, the student
\* is enrolled in the quiz's subject, the quiz is active and the current time
\* satisfies every start / end bound that is set.
C5_CreatedOnlyWhenOpen ==
    [][\A a \in Created :
          /\ IsEnrolled(a.student_id, quizzes[a.quiz_id].subject_id)
          /\ Open(quizzes[a.quiz_id], now)]_vars

\* C6: a submit request made while the quiz is inactive or the current time
\* is outside its start / end window is rejected and writes nothing.
C6_SubmitReverifiesWindow ==
    \A r \in Slots :
        req[r].kind = "submit" /\ ~req[r].openAtStart /\ req[r].quiz \in DOMAIN quizzes =>
            /\ ~req[r].wrote
            /\ req[r].resp # "OK"

\* C7: a request rejected because the answers payload is missing or not an
\* object, the quiz does not exist, or the student is not enrolled, has
\* created and modified no attempt record, and the rejecting step leaves the
\* persisted state unchanged.
C7_RejectionsChangeNothing ==
    /\ [](\A r \in Slots :
            req[r].resp \in {"ValidationError", "NotFound", "NotEnrolled"} =>
                Done(r) /\ ~req[r].wrote)
    /\ [][\A r \in Slots :
            Acts(r) /\ req'[r].resp \in {"ValidationError", "NotFound", "NotEnrolled"} =>
                UNCHANGED <<quizzes, questions, enrolled, attempts, nextId>>]_vars

C7_Witness ==
    \E r1, r2 \in Slots :
        /\ req[r1].resp = "ValidationError"
        /\ req[r2].resp = "NotEnrolled"
        /\ req[r2].kind = "submit"
        /\ attempts = {}

\* C8: a detail-view or start request that finds the attempt InProgress
\* returns that same attempt (the one row of the pair), and no step of a
\* detail-view or start request changes or removes an attempt record or adds
\* one to a pair that has one.
C8_InProgressIsStable ==
    /\ [](\A r \in Slots :
            req[r].kind \in {"details", "start"} /\ req[r].seen = "open" /\ Done(r) =>
                /\ ~req[r].wrote
                /\ req[r].resp \in
                      (IF req[r].kind = "start" THEN {"OK"} ELSE {"OK", "NoQuestions"})
                /\ req[r].resp = "OK" =>
                      \A a \in PairRows(r) : a.id = req[r].respAttempt)
    /\ [][\A r \in Slots :
            req[r].kind \in {"details", "start"} /\ Acts(r) =>
                /\ attempts \subseteq attempts'
                /\ req[r].seen = "open" => attempts' = attempts
                /\ PairRows(r) # {} => attempts' = attempts]_vars

\* two requests of the pair were answered with the same attempt, the second
\* one having found it InProgress
C8_Witness ==
    \E r1, r2 \in Slots :
        /\ r1 # r2
        /\ req[r1].kind \in {"details", "start"} /\ req[r2].kind = "start"
        /\ req[r1].quiz = req[r2].quiz /\ req[r1].student = req[r2].student
        /\ req[r1].resp = "OK" /\ req[r2].resp = "OK"
        /\ req[r2].seen = "open"
        /\ req[r1].respAttempt = req[r2].respAttempt
        /\ \E a \in PairRows(r2) : a.id = req[r2].respAttempt /\ ~IsSubmitted(a)

\* C9: a submit by an enrolled student who has no attempt record, for a quiz
\* with at least one question, auto-creates the attempt and commits it: once
\* answered, exactly one attempt exists for the pair and it is submitted.
C9_AutoCreateCommits ==
    \A r \in Slots :
        /\ req[r].kind = "submit"
        /\ req[r].seen = "none"
        /\ Done(r)
        /\ questions[req[r].quiz] # <<>>
        => /\ req[r].resp = "OK"
           /\ Cardinality(PairRows(r)) = 1
           /\ \A a \in PairRows(r) : IsSubmitted(a)

IsBlank(v) == v.t \notin {"string", "number"} \/ Normalize(v) = <<>>
WellFormedOptions(o) ==
    /\ o.t = "array" \/ (o.t = "string" /\ o.parse = "array")
    /\ o.items # <<>>
    /\ \A i \in DOMAIN o.items : o.items[i].t = "string" /\ ~IsBlank(o.items[i])

\* the marks the dual interpretation awards
DualCredit(question, answer) ==
    LET nsa == Normalize(answer)
        nca == Normalize(question.correct_answer)
        idx == parseInt(nca)
        literal == nsa = nca
        byIndex == /\ ~idx.nan
                   /\ idx.val \in 0..(Len(question.options.items) - 1)
                   /\ nsa = Normalize(question.options.items[idx.val + 1])
    IN  IF ~IsBlank(answer) /\ (literal \/ byIndex) THEN question.marks ELSE 0

\* C10: for every multiple-choice question with a well-formed option list and
\* a correct answer, grading awards the marks when the normalized answer
\* equals the literal correct_answer text or the text of the option that
\* correct_answer indexes, and 0 otherwise.
C10_McqDualInterpretation ==
    /\ grade.phase = "graded"
    /\ grade.question.question_type = "mcq"
    /\ WellFormedOptions(grade.question.options)
    /\ ~IsBlank(grade.question.correct_answer)
    => grade.credit = DualCredit(grade.question, grade.answer)

\* the same for answers that are not the number 0
C10_ExceptNumberZero ==
    grade.answer # JsNum(0) => C10_McqDualInterpretation

\* C11: the score of a submit is the sum of the marks of exactly those
\* questions whose submitted answer is in the question's accepted set; a
\* question with a missing or empty answer contributes 0.
C11_ScoreIsSumOfAccepted ==
    grade.phase = "graded" =>
        grade.score = SumAccepted(grade.qs, grade.answers, Len(grade.qs))

\* the answers and questions that C15 and C16 are about
NumberZeroAnswered ==
    \E k \in DOMAIN grade.qs : GetProp(grade.answers, NumStr(k - 1)) = JsNum(0)
UnparsableOptions == \E k \in DOMAIN grade.qs : ParseThrows(grade.qs[k].options)

\* the same for submits without the number 0 and without unparsable options
C11_ExceptZeroAndUnparsable ==
    ~NumberZeroAnswered /\ ~UnparsableOptions => C11_ScoreIsSumOfAccepted

\* C12: the percentage computed by submit lies in [0, 100] (hundredths:
\* 0..10000), also when the marks sum above the declared total.
C12_PercentageInRange ==
    grade.phase = "graded" => grade.percentage \in 0..10000

\* the same for question lists without negative marks
C12_NonNegativeMarks ==
    (\A k \in DOMAIN grade.qs : grade.qs[k].marks >= 0) => C12_PercentageInRange

\* the clamp acts: marks above the declared total, percentage 100
C12_Overshoot ==
    /\ grade.phase = "graded"
    /\ grade.total_marks > 0
    /\ grade.score > grade.total_marks
    /\ grade.percentage = 10000

\* C13: when the quiz's total_marks is 0, submit computes percentage 0 without
\* raising, and the submission is committed with the computed score.
C13_ZeroTotalCommits ==
    /\ [](\A r \in Slots :
            At(r, "submit", "update") /\ req[r].quizrow.total_marks <= 0 =>
                /\ req[r].percentage = 0
                /\ req[r].score = Grade(questions[req[r].quiz], req[r].body.m))
    /\ [][\A r \in Slots :
            /\ req[r].kind = "submit"
            /\ req[r].pc \in {"questions", "update"}
            /\ req[r].quizrow.total_marks <= 0
            /\ questions[req[r].quiz] # <<>>
            /\ Acts(r)
            => IF req[r].pc = "questions" THEN req'[r].pc = "update"
               ELSE /\ req'[r].resp = "OK"
                    /\ \E a \in attempts' :
                          /\ a.id = req[r].attemptId
                          /\ IsSubmitted(a)
                          /\ a.answers = req[r].body
                          /\ a.score = req[r].score
                          /\ a.percentage = 0]_vars

\* a submit graded 10 marks against a declared total of 0 is stored with
\* percentage 0
C13_Witness ==
    \E a \in attempts :
        /\ IsSubmitted(a)
        /\ a.score = 10
        /\ a.percentage = 0
        /\ quizzes[a.quiz_id].total_marks = 0

\* the value of the first key present, in the order i, 'question-i' (the
\* integer i and the string of i name the same property)
FirstPresent(answers, i) ==
    IF GetProp(answers, NumStr(i)) # JsUndef THEN GetProp(answers, NumStr(i))
    ELSE GetProp(answers, TemplateKey(i))

\* C14: the submitted answer used by grading and by analytics is the value
\* of the first key present in the answers mapping; the value under a later
\* key is used only when no earlier key is present.
C14_FirstPresentKeyWins ==
    LET first == (NumStr(0) :> FirstPresent(grade.answers, 0))
    IN  /\ grade.phase \in {"graded", "analysed"} =>
              grade.credit = Grade(<<grade.question>>, first)
        /\ grade.phase = "analysed" =>
              grade.correct = AnalysisCorrect(grade.question, first, 0)

\* the same for mappings whose key 0 is absent or holds a truthy value
C14_ExceptFalsyFirst ==
    LET v == GetProp(grade.answers, NumStr(0))
    IN  v = JsUndef \/ Truthy(v) => C14_FirstPresentKeyWins

\* C15: submitting the number n earns exactly the same marks as submitting
\* the string of n, for every question and every number n, 0 included.
C15_NumberLikeString ==
    grade.phase = "graded" /\ grade.answer.t = "number" =>
        grade.credit =
            Grade(<<grade.question>>, (NumStr(0) :> JsStr(NumStr(grade.answer.n))))

\* the same for the numbers other than 0
C15_ExceptZero ==
    grade.answer # JsNum(0) => C15_NumberLikeString

\* the number 1 is graded, and earns the marks of the string "1"
C15_NumberOneGraded ==
    /\ grade.phase = "graded"
    /\ grade.answer = JsNum(1)
    /\ grade.credit = grade.question.marks

\* C16: when a multiple-choice question's stored options cannot be
\* deserialized, grading falls back to the literal comparison: an answer
\* equal (after normalization) to the literal correct_answer earns the
\* question's marks, any other answer earns 0.
C16_UnparsableFallsBackToLiteral ==
    /\ grade.phase = "graded"
    /\ grade.question.question_type = "mcq"
    /\ ParseThrows(grade.question.options)
    => grade.credit =
          (IF /\ ~IsEmpty(grade.answer)
              /\ ~IsEmpty(grade.question.correct_answer)
              /\ Normalize(grade.answer) = Normalize(grade.question.correct_answer)
           THEN grade.question.marks ELSE 0)

\* what holds: such a question earns 0 whatever the answer, without raising
C16_UnparsableEarnsNothing ==
    /\ grade.phase = "graded"
    /\ grade.question.question_type = "mcq"
    /\ ParseThrows(grade.question.options)
    => grade.credit = 0

\* processing the question fails: its stored options are not parsable
ProcessingFails(question, answer) ==
    QuestionReachesParse(question, answer) /\ ParseThrows(question.options)

\* every question graded on its own, a failing one counted 0
RECURSIVE SumGradedAlone(_, _, _)
SumGradedAlone(qs, answers, k) ==
    IF k = 0 THEN 0
    ELSE LET answer == StudentAnswer(answers, k - 1)
         IN  SumGradedAlone(qs, answers, k - 1)
             + (IF ProcessingFails(qs[k], answer) THEN 0
                ELSE Grade(<<qs[k]>>, (NumStr(0) :> answer)))

\* C17: grading never fails the submit on malformed per-question data: a
\* question whose processing fails gets 0, the other questions are graded as
\* they are on their own, and the attempt is committed with that score.
C17_MalformedNeverFailsSubmit ==
    [][\A r \in Slots :
          /\ req[r].kind = "submit"
          /\ req[r].pc \in {"questions", "update"}
          /\ questions[req[r].quiz] # <<>>
          /\ Acts(r)
          => IF req[r].pc = "questions"
             THEN /\ req'[r].pc = "update"
                  /\ req'[r].score =
                        SumGradedAlone(questions[req[r].quiz], req[r].body.m,
                                       Len(questions[req[r].quiz]))
             ELSE /\ req'[r].resp = "OK"
                  /\ \E a \in attempts' :
                        /\ a.id = req[r].attemptId
                        /\ IsSubmitted(a)
                        /\ a.score = req[r].score]_vars

\* a submit that answers the two malformed questions of quiz 1 is committed
\* with the marks of the two well-formed ones
C17_Witness ==
    \E a \in attempts :
        /\ IsSubmitted(a)
        /\ a.answers = BodyObject(AnswersA)
        /\ \E k \in DOMAIN questions[a.quiz_id] :
              ProcessingFails(questions[a.quiz_id][k], StudentAnswer(a.answers.m, k - 1))
        /\ a.score = 10

\* the same sum over every question list and answers mapping of ScoreSpec
C17_ListsGradedAlone ==
    grade.phase = "graded" =>
        grade.score = SumGradedAlone(grade.qs, grade.answers, Len(grade.qs))

\* C18: a question whose correct_answer is missing, empty or whitespace-only
\* has an empty accepted set: grading awards 0 marks for every submitted
\* answer and analytics never counts an attempt as correct for it.
C18_BlankCorrectAnswerNeverMatches ==
    IsEmpty(grade.question.correct_answer) =>
        /\ grade.phase \in {"graded", "analysed"} => grade.credit = 0
        /\ grade.phase = "analysed" => ~grade.correct

\* the grading half
C18_GradingAwardsNothing ==
    IsEmpty(grade.question.correct_answer) /\ grade.phase \in {"graded", "analysed"}
        => grade.credit = 0

C19_Concurrent ==
    \E r1, r2 \in Slots :
        /\ r1 # r2
        /\ At(r1, "submit", "update") /\ At(r2, "submit", "update")
        /\ req[r1].student # req[r2].student
        /\ req[r1].quiz = req[r2].quiz /\ req[r1].body = req[r2].body
        /\ req[r1].score = 10

\* C20: analytics counts the attempt as correct for the question exactly
\* when grading the attempt's stored answers awards the question's marks.
C20_AnalyticsAgreesWithGrading ==
    grade.phase = "analysed" =>
        (grade.correct <=> grade.credit = grade.question.marks)

\* the answer the lookup yields is a non-empty string of white space
WhitespaceOnlyAnswer ==
    LET a == StudentAnswer(grade.answers, 0)
    IN  Truthy(a) /\ Normalize(a) = <<>>

\* the same for questions whose options are absent or an array (stored or
\* parsed), and answers that are not whitespace-only
C20_ExceptKnownShapes ==
    /\ ~WhitespaceOnlyAnswer
    /\ grade.question.options.t = "null" \/ IsArray(grade.question.options)
    => C20_AnalyticsAgreesWithGrading

\* the rows of the table a report of the quiz is about
SubmittedOf(q) == {a \in attempts : a.quiz_id = q /\ IsSubmitted(a)}
Abs(x) == IF x < 0 THEN 0 - x ELSE x

\* C21: for every question of the analysed quiz the report gives totalAttempts
\* equal to the number of submitted attempts of the quiz (attempts in progress
\* and attempts of other quizzes are not counted), 0 <= correctCount <=
\* totalAttempts, and an accuracy within [0, 100] that is
\* correctCount / totalAttempts * 100 to the nearest hundredth, 0 when there
\* is no submitted attempt.
C21_TalliesAndAccuracy ==
    (grade.phase = "done" /\ grade.resp = "OK") =>
        LET n == Cardinality(SubmittedOf(grade.quiz))
        IN  /\ DOMAIN grade.report = DOMAIN questions[grade.quiz]
            /\ \A k \in DOMAIN grade.report :
                  LET e == grade.report[k]
                  IN  /\ e.total_attempts = n
                      /\ 0 <= e.correct_answers /\ e.correct_answers <= n
                      /\ 0 <= e.accuracy_percentage /\ e.accuracy_percentage <= 10000
                      /\ n = 0 => e.accuracy_percentage = 0
                      /\ n > 0 => 2 * Abs(e.accuracy_percentage * n
                                          - e.correct_answers * 10000) <= n

\* four submitted attempts, three of them right on the first question: 75.00
C21_Witness ==
    /\ grade.phase = "done" /\ grade.resp = "OK" /\ grade.quiz = 1
    /\ grade.report[1] = [correct_answers |-> 3, total_attempts |-> 4,
                          accuracy_percentage |-> 7500]

\* an attempt in progress of the analysed quiz is left out of the count, and
\* one of three gives 33.33
C21_InProgressLeftOut ==
    /\ grade.phase = "done" /\ grade.resp = "OK" /\ grade.quiz = 1
    /\ \E a \in attempts : a.quiz_id = 1 /\ ~IsSubmitted(a)
    /\ grade.report[1] = [correct_answers |-> 1, total_attempts |-> 3,
                          accuracy_percentage |-> 3333]

\* the stored answers of the row cannot be processed: the text is not JSON,
\* or it is the JSON null
Malformed(a) == AttemptSkipped(a.answers)
\* the same row with answers that answer nothing: {}
AnsweredNothing(a) == [a EXCEPT !.answers = BodyObject(<< >>)]

C22_BareStringIsIndexed ==
    /\ grade.phase = "done" /\ grade.resp = "OK" /\ grade.quiz = 1
    /\ SubmittedOf(1) # {} /\ \A a \in SubmittedOf(1) : a.answers = StoredText("string", <<"0">>)
    /\ grade.report[1].correct_answers = Cardinality(SubmittedOf(1))

\* C23: the question list of the detail-view response does not depend on any
\* correct_answer: two quizzes that differ only in the correct_answer of
\* their questions get the same response and the same list, and no returned
\* question has a correct_answer field.
C23_ViewIndependentOfCorrectAnswer ==
    grade.phase = "done" =>
        /\ grade.resp = grade.altResp
        /\ grade.view = grade.altView
        /\ \A k \in DOMAIN grade.view : "correct_answer" \notin DOMAIN grade.view[k]
        /\ \A k \in DOMAIN grade.altView : "correct_answer" \notin DOMAIN grade.altView[k]

\* two quizzes of two questions with different correct answers throughout,
\* both answered with the list
C23_Witness ==
    /\ grade.phase = "done" /\ grade.resp = "OK"
    /\ Len(grade.qs) = 2 /\ Len(grade.view) = 2
    /\ \A k \in DOMAIN grade.qs : grade.qs[k].correct_answer # grade.alt[k].correct_answer

\* the row is the attempt of the student and the quiz of the request on r
OwnRow(a, r) == a.quiz_id = req[r].quiz /\ a.student_id = req[r].student

\* C24: every step of a detail-view, start or submit request creates or
\* modifies only the attempt of the requesting student for the requested
\* quiz: the rows of every other student and of every other quiz are the same
\* after the step, and no row is added for them.
C24_OnlyOwnAttemptTouched ==
    [][\A r \in Slots :
          Acts(r) =>
              /\ \A a \in attempts : ~OwnRow(a, r) => a \in attempts'
              /\ \A a \in attempts' : ~OwnRow(a, r) => a \in attempts]_vars

\* a student has submitted while the attempt of another student for the same
\* quiz was stored, and that attempt is still in progress, as it was created
C24_Witness ==
    \E r \in Slots :
        /\ Done(r) /\ req[r].kind = "submit" /\ req[r].resp = "OK" /\ req[r].wrote
        /\ \E a \in attempts : OwnRow(a, r) /\ IsSubmitted(a)
        /\ \E b \in attempts :
              /\ b.quiz_id = req[r].quiz /\ b.student_id # req[r].student
              /\ b = [NewAttempt(b.quiz_id, b.student_id) EXCEPT !.id = b.id]

\* C25: an attempt that is not submitted (submitted_at is null) has score 0,
\* percentage 0 and no stored answers; a step that changes the score, the
\* percentage or the answers of an attempt is the submit update, which sets
\* submitted_at in the same write.
C25_UnsubmittedHoldsDefaults ==
    /\ [](\A a \in attempts :
            ~IsSubmitted(a) => a.score = 0 /\ a.percentage = 0 /\ a.answers = AnswersNull)
    /\ [][\A a \in attempts, b \in attempts' :
            (a.id = b.id /\ <<a.score, a.percentage, a.answers>> # <<b.score, b.percentage, b.answers>>)
                => /\ IsSubmitted(b)
                   /\ \E r \in Slots : At(r, "submit", "update") /\ req[r].attemptId = a.id
                                         /\ Done(r)']_vars

\* the answers are graded, 10 marks, and the attempt of the request still
\* holds the defaults of its creation until the update
C25_Witness ==
    \E r \in Slots :
        /\ At(r, "submit", "update") /\ req[r].score = 10 /\ req[r].percentage = 10000
        /\ \E a \in attempts :
              /\ a.id = req[r].attemptId /\ ~IsSubmitted(a)
              /\ a.score = 0 /\ a.percentage = 0 /\ a.answers = AnswersNull

\* C26: a detail view whose insert failed because the record already exists
\* fetches the attempt again.  If the attempt found is unsubmitted the
\* handler goes on with it and the view is answered with that attempt; if it
\* is submitted the request is rejected as already submitted; the insert
\* error is surfaced only when no record is found.
C26_DetailViewRefetches ==
    /\ [](\A r \in Slots :
            /\ At(r, "details", "retry") => req[r].error = "ER_DUP_ENTRY"
            /\ (req[r].kind = "details" /\ req[r].error = "ER_DUP_ENTRY" /\ Done(r)) =>
                   /\ req[r].resp \in {"OK", "AlreadySubmitted", "NoQuestions"}
                   /\ req[r].resp = "OK" =>
                          \E a \in PairRows(r) : a.id = req[r].respAttempt)
    /\ [][\A r \in Slots :
            (At(r, "details", "retry") /\ Acts(r)) =>
                IF PairRows(r) = {} THEN req'[r].resp = "ServerError"
                ELSE IF IsSubmitted(FirstRow(PairRows(r)))
                     THEN req'[r].resp = "AlreadySubmitted" /\ Done(r)'
                ELSE /\ req'[r].pc = "questions"
                     /\ req'[r].attemptId = FirstRow(PairRows(r)).id
                     /\ UNCHANGED attempts]_vars

\* the insert of a detail view failed on the row a concurrent request
\* created, and the view was answered with that row, still in progress
C26_Witness ==
    \E r \in Slots :
        /\ req[r].kind = "details" /\ req[r].error = "ER_DUP_ENTRY"
        /\ Done(r) /\ req[r].resp = "OK" /\ ~req[r].wrote
        /\ \E a \in PairRows(r) : a.id = req[r].respAttempt /\ ~IsSubmitted(a)

\* the same, when the concurrent request was a submit that has committed
C26_RefetchedSubmitted ==
    \E r \in Slots :
        /\ req[r].kind = "details" /\ req[r].error = "ER_DUP_ENTRY"
        /\ Done(r) /\ req[r].resp = "AlreadySubmitted"
        /\ \E a \in PairRows(r) : IsSubmitted(a)

\* C27: a detail-view or submit request rejected because the quiz has no
\* questions has created no attempt record.
C27_NoQuestionsLeavesNoAttempt ==
    \A r \in Slots : req[r].resp = "NoQuestions" => ~req[r].wrote

\* the rejected request has inserted the attempt of a student who had none,
\* and the row stays
C27_AttemptLeftBehind ==
    \E r \in Slots :
        /\ Done(r) /\ req[r].resp = "NoQuestions" /\ req[r].wrote /\ req[r].seen = "none"
        /\ PairRows(r) # {}

\* whenever the quiz has no questions the rejection comes after the attempt of
\* the pair exists
C27_RejectedAfterAttemptExists ==
    \A r \in Slots : req[r].resp = "NoQuestions" => PairRows(r) # {}

RECURSIVE SumMarks(_, _)
SumMarks(qs, S) ==
    IF S = {} THEN 0
    ELSE LET k == CHOOSE x \in S : TRUE
         IN  qs[k].marks + SumMarks(qs, S \ {k})

\* the answer equals the literal correct answer and also the text of the
\* option at the index the correct answer encodes
MatchesBoth(question, answer) ==
    /\ question.question_type = "mcq" /\ IsArray(question.options)
    /\ Truthy(answer) /\ Truthy(question.correct_answer)
    /\ Normalize(answer) = Normalize(question.correct_answer)
    /\ McqIndexMatch(question, Normalize(answer), Normalize(question.correct_answer))

\* C28: each question adds its marks to the score at most once per submit:
\* the score is the sum of the marks of some of the questions, each taken
\* once, also when an answer matches both the literal correct answer and the
\* option text at the index it encodes; with marks >= 0 throughout,
\* 0 <= score <= the sum of the marks of the quiz's questions.
C28_MarksAtMostOnce ==
    grade.phase = "graded" =>
        /\ \E S \in SUBSET DOMAIN grade.qs : grade.score = SumMarks(grade.qs, S)
        /\ (\A k \in DOMAIN grade.qs : grade.qs[k].marks >= 0) =>
               /\ 0 <= grade.score
               /\ grade.score <= SumMarks(grade.qs, DOMAIN grade.qs)
        /\ (Len(grade.qs) = 1 /\ MatchesBoth(grade.qs[1], GetProp(grade.answers, NumStr(0)))) =>
               grade.score = grade.qs[1].marks

\* two questions, the first answered "0" where "0" is both the correct answer
\* and the option it points at, the second right too: 5 + 10
C28_Witness ==
    /\ grade.phase = "graded" /\ Len(grade.qs) = 2
    /\ MatchesBoth(grade.qs[1], GetProp(grade.answers, NumStr(0)))
    /\ grade.qs[1].marks = 5 /\ grade.qs[2].marks = 10
    /\ grade.score = 15

\* the committed tables hold nothing of the request
NothingPersisted == quizzes = InitQuizzes /\ questions = InitQuestions
\* the committed tables hold the quiz with every submitted question, in order
AllPersisted ==
    /\ DOMAIN quizzes = DOMAIN InitQuizzes \cup {NextQuizId}
    /\ \A q \in DOMAIN InitQuizzes : quizzes[q] = InitQuizzes[q] /\ questions[q] = InitQuestions[q]
    /\ quizzes[NextQuizId] = StoredQuiz(1, grade.total_marks)
    /\ questions[NextQuizId] = [k \in DOMAIN grade.items |-> StoredQuestion(grade.items[k])]

\* C29: quiz creation is atomic.  In every state the committed tables hold
\* either nothing of the request or the quiz with all of its submitted
\* questions; a request answered with success has persisted all of them, a
\* request in which an insert failed is answered with a server error and has
\* persisted nothing.
C29_QuizCreationAtomic ==
    /\ NothingPersisted \/ AllPersisted
    /\ grade.phase = "done" =>
          /\ grade.resp = "OK" => AllPersisted
          /\ grade.resp # "OK" => NothingPersisted
          /\ grade.access =>
                (grade.resp = "ServerError" <=>
                    \/ QuizInsertFails(grade.total_marks)
                    \/ \E k \in DOMAIN grade.items : QuestionInsertFails(grade.items[k]))
          /\ grade.access => grade.resp \in {"OK", "ServerError"}

\* the quiz and its first question were written, the insert of the second
\* question failed: server error, and neither row is in the tables
C29_Witness ==
    /\ grade.phase = "done" /\ grade.resp = "ServerError"
    /\ grade.quizId = NextQuizId /\ Len(grade.pending) = 1 /\ Len(grade.items) = 2
    /\ NothingPersisted

\* the success: the quiz is stored with its two questions
C29_Created ==
    /\ grade.phase = "done" /\ grade.resp = "OK" /\ Len(grade.items) = 2
    /\ Len(questions[NextQuizId]) = 2

\* the request carries a token that verifies and names an existing user
Authenticated == grade.token.kind = "valid" /\ grade.token.userId \in DOMAIN Users
\* no handler of the router has run a step
NoHandlerRan == req = [r \in Slots |-> IdleReq] /\ grade.scores = {} /\ grade.resp # "OK"

\* C30: no handler of the student router (detail view, start, submit,
\* scores) runs unless the request was authenticated to an existing user
\* whose role is student, and then it runs for that user.  A request without
\* a valid token is answered 401 and an authenticated user of another role
\* 403, and no step of theirs reads or writes the attempts.
C30_StudentRoutesRequireStudent ==
    /\ [](~NoHandlerRan =>
            /\ Authenticated /\ Users[grade.token.userId] = "student"
            /\ grade.phase \in {"handler", "done"}
            /\ \A r \in Slots : req[r] # IdleReq => req[r].student = grade.token.userId
            /\ \A a \in grade.scores : a.student_id = grade.token.userId)
    /\ [](grade.phase = "done" /\ ~Authenticated =>
            grade.resp = "Unauthorized" /\ NoHandlerRan)
    /\ [](grade.phase = "done" /\ Authenticated /\ Users[grade.token.userId] # "student" =>
            grade.resp = "Forbidden" /\ NoHandlerRan)
    /\ [][attempts' # attempts =>
            Authenticated /\ Users[grade.token.userId] = "student"
            /\ grade.phase = "handler"]_vars

\* a teacher's valid token on the submit route: 403, and the stored attempt
\* of the student untouched
C30_Witness ==
    /\ grade.phase = "done" /\ grade.resp = "Forbidden"
    /\ grade.token = TokenOf(3) /\ grade.route = "submit"
    /\ NoHandlerRan /\ attempts = {StoredAttempt}

\* no token: 401
C30_NoToken ==
    /\ grade.phase = "done" /\ grade.resp = "Unauthorized" /\ grade.token = NoToken
    /\ NoHandlerRan
\* a token of a user that is no longer in the table: 401
C30_UnknownUser ==
    /\ grade.phase = "done" /\ grade.resp = "Unauthorized" /\ grade.token = TokenOf(5)
    /\ NoHandlerRan
\* the student is served: a committed submit
C30_StudentSubmits ==
    /\ grade.token = TokenOf(1)
    /\ req[1].kind = "submit" /\ req[1].resp = "OK" /\ req[1].wrote
\* the student is served: the scores of the student
C30_StudentScores ==
    /\ grade.token = TokenOf(1)
    /\ grade.route = "scores" /\ grade.scores = {StoredAttempt}

=============================================================================
